---- MODULE Spec2Model ----
(***************************************************************************)
(* A model of chython's BaseReactor (src/chython/reactor/base.py): the     *)
(* deletion analysis _get_deleted and the graph patcher _patcher.          *)
(*                                                                         *)
(* One behaviour is one call of _patcher on a host structure, a mapping    *)
(* and a reactor (replacement template, _to_delete, fix_rings).  The       *)
(* position inside the call is pc.  Python iterates sets and dicts in an   *)
(* order that depends on how they were built, so every such iteration      *)
(* whose order can change the result (the loops of _get_deleted) picks its *)
(* next element nondeterministically.                                      *)
(***************************************************************************)
EXTENDS Integers, Sequences, FiniteSets, TLC

VARIABLES
    atoms,        \* structure._atoms: host atom id -> atom record
    bonds,        \* structure._bonds: <<n, m>> -> bond record, both directions
    rAtoms,       \* self._replacement atoms: template id -> template atom
    rBonds,       \* self._replacement._bonds: <<n, m>> -> template bond
    toDel,        \* self._to_delete: pattern ids to remove
    fixRings,     \* self._fix_rings
    mapping,      \* the caller's mapping: pattern/template id -> host id
    mapping0,     \* the mapping as it was when the call started
    pc,           \* position inside _patcher
    core,         \* _get_deleted: local to_delete = images of _to_delete
    remain,       \* _get_deleted: mapped atoms that are not removed
    coreLeft,     \* core atoms the outer loop has not visited yet
    nbrLeft,      \* neighbours of the current core atom not visited yet
    stack,        \* the walk's stack: a sequence of batches (sets) of atoms
    seen,         \* atoms of the current walk
    globalSeen,   \* atoms of all walks
    delete,       \* atoms of the committed walks
    deleted,      \* the set _get_deleted returned (to_delete of _patcher)
    rLeft,        \* template atoms the atom loop has not processed yet
    maxAtom,      \* max_atom
    natoms,       \* new._atoms: id -> atom record
    nbonds,       \* new._bonds: <<n, m>> -> reference of a Bond object
    bobj,         \* the Bond objects of new: reference -> bond record
    stereoAtoms,  \* stereo_atoms
    stereoBonds,  \* stereo_bonds
    patched,      \* patched_atoms
    calls,        \* the external routines invoked by the finalization
    thieleRet,    \* what new.thiele() returned ("none" before the call)
    returned      \* TRUE once _patcher has returned new

vars == <<atoms, bonds, rAtoms, rBonds, toDel, fixRings, mapping, mapping0, pc,
          core, remain, coreLeft, nbrLeft, stack, seen, globalSeen, delete,
          deleted, rLeft, maxAtom, natoms, nbonds, bobj, stereoAtoms,
          stereoBonds, patched, calls, thieleRet, returned>>

inputVars == <<atoms, bonds, rAtoms, rBonds, toDel, fixRings, mapping0>>
walkVars == <<core, remain, coreLeft, nbrLeft, stack, seen, globalSeen, delete, deleted>>
patchVars == <<rLeft, maxAtom, natoms, nbonds, bobj, stereoAtoms, stereoBonds, patched>>
finalVars == <<calls, thieleRet, returned>>

(***************************************************************************)
(* Bounds of the model.                                                    *)
(***************************************************************************)
NAtoms == 4        \* host atoms
MaxBonds == 4      \* host bonds
MaxCore == 2       \* pattern atoms the reactor removes
MaxPatched == 2    \* template atoms matched to host atoms
MaxNew == 1        \* template atoms that introduce a new atom
Arms == 3          \* substituents around the bond 1-2 of a labelled host

(***************************************************************************)
(* Graph helpers.                                                          *)
(***************************************************************************)
Empty == [x \in {} |-> 0]
Put(f, k, v) == (k :> v) @@ f
Range(f) == {f[k] : k \in DOMAIN f}
Min(S) == CHOOSE x \in S : \A y \in S : x <= y

\* bs[n].keys(): the neighbours of n in an adjacency bs
Nbrs(bs, n) == {e[2] : e \in {d \in DOMAIN bs : d[1] = n}}

\* mapping.get(n) is truthy
Mapped(mp, n) == n \in DOMAIN mp /\ mp[n] # 0

(***************************************************************************)
(* _get_deleted (base.py 41-70).                                           *)
(***************************************************************************)
\* stack.extend([x for x in bonds[current] if x not in global_seen]): the
\* batch is pushed in the dict's order, which the walk picks while popping
Extend(stk, batch) == IF batch = {} THEN stk ELSE Append(stk, batch)

\* the stack after stack.pop() took c from the batch on top
Popped(stk, c) ==
    LET top == stk[Len(stk)]
        low == SubSeq(stk, 1, Len(stk) - 1)
    IN  Extend(low, top \ {c})

\* lines 42-49: the early return, else the locals of the walk
GetDeletedStart ==
    /\ pc = "get_deleted"
    /\ IF toDel = {}
       THEN /\ deleted' = {}
            /\ pc' = "atoms"
            /\ UNCHANGED <<core, remain, coreLeft>>
       ELSE LET to_delete == {mapping[x] : x \in toDel}
            IN  /\ core' = to_delete
                /\ remain' = Range(mapping) \ to_delete
                /\ coreLeft' = to_delete
                /\ pc' = "core"
                /\ UNCHANGED deleted
    /\ UNCHANGED <<nbrLeft, stack, seen, globalSeen, delete>>
    /\ UNCHANGED <<inputVars, mapping, patchVars, finalVars>>

\* line 50: for x in to_delete; lines 69-70 once the loop is over
NextCore ==
    /\ pc = "core"
    /\ IF coreLeft = {}
       THEN /\ deleted' = core \cup delete
            /\ pc' = "atoms"
            /\ UNCHANGED <<coreLeft, nbrLeft>>
       ELSE \E x \in coreLeft :
                /\ coreLeft' = coreLeft \ {x}
                /\ nbrLeft' = Nbrs(bonds, x)
                /\ pc' = "nbr"
                /\ UNCHANGED deleted
    /\ UNCHANGED <<core, remain, stack, seen, globalSeen, delete>>
    /\ UNCHANGED <<inputVars, mapping, patchVars, finalVars>>

\* lines 51-56: for n in bonds[x], the skip test and the start of a walk
NextNeighbor ==
    /\ pc = "nbr"
    /\ IF nbrLeft = {}
       THEN /\ pc' = "core"
            /\ UNCHANGED <<nbrLeft, stack, seen, globalSeen>>
       ELSE \E n \in nbrLeft :
                /\ nbrLeft' = nbrLeft \ {n}
                /\ IF n \in globalSeen \/ n \in remain
                   THEN UNCHANGED <<pc, stack, seen, globalSeen>>
                   ELSE /\ seen' = {n}
                        /\ globalSeen' = globalSeen \cup {n}
                        /\ stack' = Extend(<<>>, Nbrs(bonds, n) \ globalSeen')
                        /\ pc' = "walk"
    /\ UNCHANGED <<core, remain, coreLeft, delete, deleted>>
    /\ UNCHANGED <<inputVars, mapping, patchVars, finalVars>>

\* lines 57-65: one turn of the while loop
WalkPop ==
    /\ pc = "walk"
    /\ stack # <<>>
    /\ \E current \in stack[Len(stack)] :
          IF current \in remain
          THEN /\ pc' = "nbr"                             \* break
               /\ stack' = <<>>
               /\ seen' = {}
               /\ UNCHANGED globalSeen
          ELSE IF current \in core
          THEN /\ stack' = Popped(stack, current)         \* continue
               /\ UNCHANGED <<pc, seen, globalSeen>>
          ELSE /\ seen' = seen \cup {current}
               /\ globalSeen' = globalSeen \cup {current}
               /\ stack' = Extend(Popped(stack, current),
                                  Nbrs(bonds, current) \ globalSeen')
               /\ UNCHANGED pc
    /\ UNCHANGED <<core, remain, coreLeft, nbrLeft, delete, deleted>>
    /\ UNCHANGED <<inputVars, mapping, patchVars, finalVars>>

\* lines 66-67: the while loop's else, taken when the stack ran empty
WalkCommit ==
    /\ pc = "walk"
    /\ stack = <<>>
    /\ delete' = delete \cup seen
    /\ seen' = {}
    /\ pc' = "nbr"
    /\ UNCHANGED <<core, remain, coreLeft, nbrLeft, stack, globalSeen, deleted>>
    /\ UNCHANGED <<inputVars, mapping, patchVars, finalVars>>

(***************************************************************************)
(* Atoms, bonds and the routines of the containers that _patcher calls.    *)
(* Labels are "None", "T" or "F" (Python's None, True, False); iso 0 is an *)
(* unset isotope and hyd -1 an implicit hydrogen count still to compute.   *)
(***************************************************************************)
\* Element.copy(hydrogens=..., stereo=...): element, isotope, charge and
\* radical are always copied, the hydrogen count and the label on request
CopyAtom(a, hydrogens, stereo) ==
    [a EXCEPT !.hyd = IF hydrogens THEN a.hyd ELSE -1,
              !.stereo = IF stereo THEN a.stereo ELSE "None"]

\* Bond.copy(stereo=...)
CopyBond(b, stereo) == [b EXCEPT !.stereo = IF stereo THEN b.stereo ELSE "None"]

RECURSIVE SumOrders(_, _, _)
SumOrders(bo, n, ms) ==
    IF ms = {} THEN 0
    ELSE LET m == Min(ms) IN bo[<<n, m>>].order + SumOrders(bo, n, ms \ {m})

Valence(el) ==
    IF el = 6 THEN 4 ELSE IF el = 7 THEN 3 ELSE IF el = 16 THEN 6
    ELSE IF el = 17 THEN 1 ELSE 2

\* calc_implicit: the hydrogens that fill the element's valence
CalcImplicit(el, used) == IF Valence(el) > used THEN Valence(el) - used ELSE 0

\* stereogenic_tetrahedrons: an atom with three or four neighbours, all
\* joined by single bonds
Tetrahedron(bo, n) ==
    /\ Cardinality(Nbrs(bo, n)) \in {3, 4}
    /\ \A m \in Nbrs(bo, n) : bo[<<n, m>>].order = 1

\* stereogenic_allenes: the centre of two cumulated double bonds whose two
\* ends carry substituents
Allene(bo, n) ==
    /\ Cardinality(Nbrs(bo, n)) = 2
    /\ \A m \in Nbrs(bo, n) : bo[<<n, m>>].order = 2 /\ Nbrs(bo, m) # {n}

\* the substituents of an allene's two ends
AlleneEnds(bo, n) == UNION {Nbrs(bo, m) \ {n} : m \in Nbrs(bo, n)}

\* stereogenic_cis_trans: a double bond that is not cumulated and whose two
\* ends carry substituents
CisTrans(bo, n, m) ==
    /\ <<n, m>> \in DOMAIN bo
    /\ bo[<<n, m>>].order = 2
    /\ Nbrs(bo, n) # {m} /\ Nbrs(bo, m) # {n}
    /\ \A k \in Nbrs(bo, n) \ {m} : bo[<<n, k>>].order = 1
    /\ \A k \in Nbrs(bo, m) \ {n} : bo[<<m, k>>].order = 1

\* the substituents of a cis/trans bond's two ends
CisTransEnds(bo, n, m) == (Nbrs(bo, n) \cup Nbrs(bo, m)) \ {n, m}

\* new._bonds with the Bond objects in place of their references
NewBonds(nb, objs) == [e \in DOMAIN nb |-> objs[nb[e]]]

(***************************************************************************)
(* _patcher, the atom loop (base.py 84-124).                               *)
(***************************************************************************)
\* Element.from_atomic_number(ra.atomic_number)(ra.isotope, charge=..., is_radical=...)
NewAtom(ra) ==
    [el |-> ra.el, iso |-> ra.iso, charge |-> ra.charge, rad |-> ra.rad,
     stereo |-> "None", hyd |-> -1]

\* a new atom that takes max_atom itself
FreshIdReused(mx) == mx

\* lines 103-104: the identifier of a new atom
FreshId(mx) == mx + 1

\* a patcher that forgets to mark the labelled host atoms
MarkAtomNever(ra, sa) == FALSE

\* lines 92-95 and 119-122: the template's label overrides; a host label is
\* not copied, the atom is marked instead
MarkAtom(ra, sa) == ra.stereo = "None" /\ sa.stereo # "None"

\* lines 85-122 for template atom n: the outcome of one turn of the loop.
\* ok is FALSE when the turn raises; mp and mx are the mapping and max_atom
\* the turn leaves behind, raised or not.
PatchedAtom(n, ra, mp, mx, hostAtoms) ==
    IF ra.kind = "Any"
    THEN IF Mapped(mp, n)
         THEN LET sa == hostAtoms[mp[n]]
              IN  [ok |-> TRUE, m |-> mp[n],
                   a |-> [CopyAtom(sa, FALSE, FALSE) EXCEPT !.charge = ra.charge,
                                                            !.rad = ra.rad,
                                                            !.stereo = ra.stereo],
                   mark |-> MarkAtom(ra, sa), mp |-> mp, mx |-> mx]
         ELSE [ok |-> FALSE, m |-> 0, a |-> NewAtom(ra), mark |-> FALSE,
               mp |-> mp, mx |-> mx]
    ELSE IF ~Mapped(mp, n)
         THEN LET m == FreshId(mx)
                  a == [NewAtom(ra) EXCEPT !.stereo = ra.stereo]
                  mp2 == Put(mp, n, m)
              IN  IF ra.kind = "Element" \/ Len(ra.hs) = 1
                  THEN [ok |-> TRUE, m |-> m, a |-> [a EXCEPT !.hyd = ra.hs[1]],
                        mark |-> FALSE, mp |-> mp2, mx |-> m]
                  ELSE IF Len(ra.hs) > 0
                  THEN [ok |-> FALSE, m |-> m, a |-> a, mark |-> FALSE,
                        mp |-> mp2, mx |-> m]
                  ELSE [ok |-> TRUE, m |-> m, a |-> a, mark |-> FALSE,
                        mp |-> mp2, mx |-> m]
         ELSE LET sa == hostAtoms[mp[n]]
              IN  [ok |-> TRUE, m |-> mp[n],
                   a |-> [NewAtom(ra) EXCEPT !.stereo = ra.stereo],
                   mark |-> MarkAtom(ra, sa), mp |-> mp, mx |-> mx]

\* one turn of "for n, ra in self._replacement.atoms()", in the order of
\* the template's identifiers
PatchAtom ==
    /\ pc = "atoms"
    /\ rLeft # {}
    /\ LET n == Min(rLeft)
           r == PatchedAtom(n, rAtoms[n], mapping, maxAtom, atoms)
       IN  /\ mapping' = r.mp
           /\ maxAtom' = r.mx
           /\ IF r.ok
              THEN /\ natoms' = Put(natoms, r.m, r.a)
                   /\ stereoAtoms' = IF r.mark THEN stereoAtoms \cup {r.m}
                                     ELSE stereoAtoms
                   /\ rLeft' = rLeft \ {n}
                   /\ UNCHANGED pc
              ELSE /\ pc' = "raised"                      \* raise ValueError
                   /\ UNCHANGED <<natoms, stereoAtoms, rLeft>>
    /\ UNCHANGED <<nbonds, bobj, stereoBonds, patched>>
    /\ UNCHANGED <<inputVars, walkVars, finalVars>>

(***************************************************************************)
(* _patcher, the template's bonds (base.py 126-140).                       *)
(***************************************************************************)
LexLeq(e, f) == e[1] < f[1] \/ (e[1] = f[1] /\ e[2] <= f[2])

\* the entries of an adjacency in the order the nested loops visit them
RECURSIVE InOrder(_)
InOrder(es) ==
    IF es = {} THEN <<>>
    ELSE LET e == CHOOSE x \in es : \A y \in es : LexLeq(x, y)
         IN  <<e>> \o InOrder(es \ {e})

\* line 137: the host has no labelled bond between n and m
NoHostLabel(hostBonds, n, m) ==
    <<n, m>> \notin DOMAIN hostBonds \/ hostBonds[<<n, m>>].stereo = "None"

\* lines 128-140 for one entry e of self._replacement._bonds; st holds
\* new._bonds (nb), the Bond objects (bo) and stereo_bonds (sb)
PatchBond(st, e, rb, mp, hostBonds) ==
    LET n == mp[e[1]]
        m == mp[e[2]]
        ref == <<"patch", n, m>>
    IN  IF <<m, n>> \in DOMAIN st.nb
        THEN [st EXCEPT !.nb = Put(@, <<n, m>>, st.nb[<<m, n>>])]     \* back-link
        ELSE [nb |-> Put(st.nb, <<n, m>>, ref),
              bo |-> Put(st.bo, ref, [order |-> rb.order, stereo |-> rb.stereo]),
              sb |-> IF rb.stereo = "None" /\ ~NoHostLabel(hostBonds, n, m)
                     THEN st.sb \cup {<<n, m>>} ELSE st.sb]

RECURSIVE PatchBondsFrom(_, _, _, _, _)
PatchBondsFrom(es, st, tb, mp, hostBonds) ==
    IF es = <<>> THEN st
    ELSE PatchBondsFrom(Tail(es), PatchBond(st, Head(es), tb[Head(es)], mp, hostBonds),
                        tb, mp, hostBonds)

\* the loop over self._replacement._bonds, entered once the atom loop is over
PatchBonds ==
    /\ pc = "atoms"
    /\ rLeft = {}
    /\ LET st == PatchBondsFrom(InOrder(DOMAIN rBonds),
                                [nb |-> nbonds, bo |-> bobj, sb |-> stereoBonds],
                                rBonds, mapping, bonds)
       IN  /\ nbonds' = st.nb
           /\ bobj' = st.bo
           /\ stereoBonds' = st.sb
    /\ pc' = "carry"
    /\ UNCHANGED <<rLeft, maxAtom, natoms, stereoAtoms, patched, mapping>>
    /\ UNCHANGED <<inputVars, walkVars, finalVars>>

(***************************************************************************)
(* _patcher, the carry-over of the host's atoms and bonds and the          *)
(* recomputed hydrogens (base.py 142-168).                                 *)
(***************************************************************************)
\* a carry-over that forgets the deletion set
CarriedAtomKeepsDeleted(n, pa, del) == n \notin pa

\* line 144: a host atom is copied
CarriedAtom(n, pa, del) == n \notin pa /\ n \notin del

\* a carry-over that keeps the host bonds between patched atoms
SkippedBondKeepsPatched(n, m, pa, del) == n \in del \/ m \in del

\* a carry-over that tests only the near end against the deletion set
SkippedBondOneSided(n, m, pa, del) == n \in del \/ (n \in pa /\ m \in pa)

\* lines 149 and 153: a host bond entry is not copied
SkippedBond(n, m, pa, del) ==
    n \in del \/ m \in del \/ (n \in pa /\ m \in pa)

\* line 157: a labelled bond that touches a patched atom is copied without
\* its label and marked
MarkBond(b, n, m, pa) == b.stereo # "None" /\ (n \in pa \/ m \in pa)

\* lines 149-163 for one entry e of structure._bonds
CarryBond(st, e, b, pa, del) ==
    LET n == e[1]
        m == e[2]
        ref == <<"host", n, m>>
    IN  IF SkippedBond(n, m, pa, del) THEN st
        ELSE IF <<m, n>> \in DOMAIN st.nb
        THEN [st EXCEPT !.nb = Put(@, <<n, m>>, st.nb[<<m, n>>])]     \* back-link
        ELSE IF MarkBond(b, n, m, pa)
        THEN [nb |-> Put(st.nb, <<n, m>>, ref),
              bo |-> Put(st.bo, ref, CopyBond(b, FALSE)),
              sb |-> st.sb \cup {<<n, m>>}]
        ELSE [nb |-> Put(st.nb, <<n, m>>, ref),
              bo |-> Put(st.bo, ref, CopyBond(b, TRUE)),
              sb |-> st.sb]

RECURSIVE CarryBondsFrom(_, _, _, _, _)
CarryBondsFrom(es, st, hostBonds, pa, del) ==
    IF es = <<>> THEN st
    ELSE CarryBondsFrom(Tail(es), CarryBond(st, Head(es), hostBonds[Head(es)], pa, del),
                        hostBonds, pa, del)

\* lines 165-167: new.calc_implicit(n) for the atoms without a hydrogen count
WithHydrogens(as, nb, objs) ==
    [n \in DOMAIN as |->
        IF as[n].hyd = -1
        THEN [as[n] EXCEPT !.hyd = CalcImplicit(as[n].el,
                                    SumOrders(NewBonds(nb, objs), n, Nbrs(nb, n)))]
        ELSE as[n]]

CarryOver ==
    /\ pc = "carry"
    /\ LET pa == DOMAIN natoms
           carried == {n \in DOMAIN atoms : CarriedAtom(n, pa, deleted)}
           as == [n \in pa \cup carried |->
                     IF n \in pa THEN natoms[n] ELSE CopyAtom(atoms[n], TRUE, TRUE)]
           st == CarryBondsFrom(InOrder(DOMAIN bonds),
                                [nb |-> nbonds, bo |-> bobj, sb |-> stereoBonds],
                                bonds, pa, deleted)
       IN  /\ patched' = pa
           /\ nbonds' = st.nb
           /\ bobj' = st.bo
           /\ stereoBonds' = st.sb
           /\ natoms' = WithHydrogens(as, st.nb, st.bo)
    /\ pc' = "stereo"
    /\ UNCHANGED <<rLeft, maxAtom, stereoAtoms, mapping>>
    /\ UNCHANGED <<inputVars, walkVars, finalVars>>

(***************************************************************************)
(* _patcher, the translation of the marked labels (base.py 170-191).       *)
(***************************************************************************)
\* _translate_tetrahedron_sign, _translate_allene_sign and
\* _translate_cis_trans_sign express the host's label in the new graph's
\* neighbour order.  A label of this model stands for the configuration,
\* which the translation keeps.
TranslateSign(s) == s

\* lines 172-184: the marked atom n gets its host label back
KeepsAtomLabel(n, hostBonds, newBonds) ==
    IF Tetrahedron(newBonds, n)
    THEN Nbrs(hostBonds, n) = Nbrs(newBonds, n)
    ELSE IF Allene(newBonds, n)
    THEN AlleneEnds(newBonds, n) = AlleneEnds(hostBonds, n)
    ELSE FALSE

\* lines 187-190: the marked bond n-m gets its host label back
KeepsBondLabel(n, m, hostBonds, newBonds) ==
    /\ CisTrans(newBonds, n, m)
    /\ CisTransEnds(newBonds, n, m) = CisTransEnds(hostBonds, n, m)

TranslateStereo ==
    /\ pc = "stereo"
    /\ LET nbv == NewBonds(nbonds, bobj)
           refs == {nbonds[e] : e \in {d \in stereoBonds :
                                        KeepsBondLabel(d[1], d[2], bonds, nbv)}}
       IN  /\ natoms' = [n \in DOMAIN natoms |->
                           IF n \in stereoAtoms /\ KeepsAtomLabel(n, bonds, nbv)
                           THEN [natoms[n] EXCEPT !.stereo = TranslateSign(atoms[n].stereo)]
                           ELSE natoms[n]]
           /\ bobj' = [r \in DOMAIN bobj |->
                           IF r \in refs
                           THEN [bobj[r] EXCEPT !.stereo =
                                     TranslateSign(bonds[<<r[2], r[3]>>].stereo)]
                           ELSE bobj[r]]
    /\ pc' = "final"
    /\ UNCHANGED <<rLeft, maxAtom, nbonds, stereoAtoms, stereoBonds, patched, mapping>>
    /\ UNCHANGED <<inputVars, walkVars, finalVars>>

(***************************************************************************)
(* _patcher, the finalization (base.py 193-199).  kekule, thiele and       *)
(* fix_stereo are routines of the container; calls records their order.    *)
(***************************************************************************)
\* fix_stereo: a label stays only where the graph still has a stereocentre
FixedAtoms(as, newBonds) ==
    [n \in DOMAIN as |->
        IF as[n].stereo # "None" /\ ~Tetrahedron(newBonds, n) /\ ~Allene(newBonds, n)
        THEN [as[n] EXCEPT !.stereo = "None"]
        ELSE as[n]]

FixedBonds(objs, newBonds) ==
    [r \in DOMAIN objs |->
        IF objs[r].stereo # "None" /\ ~CisTrans(newBonds, r[2], r[3])
        THEN [objs[r] EXCEPT !.stereo = "None"]
        ELSE objs[r]]

\* the test of line 195 without its negation
FixAfterThieleInverted(ret) == ret

\* line 195: fix_stereo follows when thiele returned a false value
FixAfterThiele(ret) == ~ret

\* line 194: new.kekule(), which keeps the labels as they are
Kekule ==
    /\ pc = "final"
    /\ fixRings
    /\ calls' = Append(calls, "kekule")
    /\ pc' = "thiele"
    /\ UNCHANGED <<thieleRet, returned, mapping>>
    /\ UNCHANGED <<inputVars, walkVars, patchVars>>

\* line 195: new.thiele(fix_tautomers=...); when it aromatized a ring it
\* returns True and has fixed the labels itself; line 199 when nothing follows
Thiele ==
    /\ pc = "thiele"
    /\ \E ret \in BOOLEAN :
          /\ thieleRet' = IF ret THEN "True" ELSE "False"
          /\ calls' = Append(calls, "thiele")
          /\ IF FixAfterThiele(ret)
             THEN /\ pc' = "fix_stereo"
                  /\ UNCHANGED <<natoms, bobj, returned>>
             ELSE /\ natoms' = FixedAtoms(natoms, NewBonds(nbonds, bobj))
                  /\ bobj' = FixedBonds(bobj, NewBonds(nbonds, bobj))
                  /\ returned' = TRUE
                  /\ pc' = "done"
    /\ UNCHANGED <<rLeft, maxAtom, nbonds, stereoAtoms, stereoBonds, patched, mapping>>
    /\ UNCHANGED <<inputVars, walkVars>>

\* lines 196 and 198: new.fix_stereo(), then line 199: return new
FixStereo ==
    /\ \/ pc = "fix_stereo"
       \/ pc = "final" /\ ~fixRings
    /\ calls' = Append(calls, "fix_stereo")
    /\ natoms' = FixedAtoms(natoms, NewBonds(nbonds, bobj))
    /\ bobj' = FixedBonds(bobj, NewBonds(nbonds, bobj))
    /\ returned' = TRUE
    /\ pc' = "done"
    /\ UNCHANGED <<thieleRet, rLeft, maxAtom, nbonds, stereoAtoms, stereoBonds,
                   patched, mapping>>
    /\ UNCHANGED <<inputVars, walkVars>>

(***************************************************************************)
(* The calls the model checks: a host, a reactor and a mapping.            *)
(* A call is described by                                                  *)
(*   n     the host's atoms are 1..n                                       *)
(*   es    the host's bonds, pairs <<a, b>> with a < b                     *)
(*   dbl   the host bonds of order 2 (the others have order 1)             *)
(*   alab, blab   the labelled host atoms and bonds (label "T")            *)
(*   iso   the host atoms with isotope 13                                  *)
(*   tpl   the template's atoms in the order of their identifiers 1..;     *)
(*         tgt is the matched host atom, 0 for an unmatched atom           *)
(*   tb    the template's bonds <<i, j>>, i < j, with order and label      *)
(*   cs    the host atoms matched by the pattern atoms in _to_delete       *)
(*   ms    the host atoms matched by masked pattern atoms                  *)
(*   fix   fix_rings                                                       *)
(* Pattern atoms outside the template are numbered after the template's.   *)
(***************************************************************************)
RECURSIVE Sorted(_)
Sorted(S) == IF S = {} THEN <<>> ELSE <<Min(S)>> \o Sorted(S \ {Min(S)})

Sym(es) == es \cup {<<e[2], e[1]>> : e \in es}
Und(e) == IF e[1] < e[2] THEN e ELSE <<e[2], e[1]>>

HostBonds(c) ==
    [e \in Sym(c.es) |->
        [order |-> IF Und(e) \in c.dbl THEN 2 ELSE 1,
         stereo |-> IF Und(e) \in c.blab THEN "T" ELSE "None"]]

\* carbon and nitrogen alternate along the identifiers
HostEl(a) == IF a % 2 = 1 THEN 6 ELSE 7

\* the hydrogens are the ones calc_implicit gives the host
HostAtoms(c) ==
    [a \in 1..c.n |->
        LET el == IF "els" \in DOMAIN c THEN c.els[a] ELSE HostEl(a)
        IN  [el |-> el,
             iso |-> IF a \in c.iso THEN 13 ELSE 0,
             charge |-> 0, rad |-> FALSE,
             stereo |-> IF a \in c.alab THEN "T" ELSE "None",
             hyd |-> CalcImplicit(el, SumOrders(HostBonds(c), a, Nbrs(HostBonds(c), a)))]]

TplAtoms(c) ==
    [k \in 1..Len(c.tpl) |->
        [kind |-> c.tpl[k].kind, el |-> c.tpl[k].el, iso |-> c.tpl[k].iso,
         charge |-> c.tpl[k].charge, rad |-> c.tpl[k].rad,
         stereo |-> c.tpl[k].stereo, hs |-> c.tpl[k].hs]]

TplBonds(c) == [e \in Sym(DOMAIN c.tb) |-> c.tb[Und(e)]]

\* the mapping the matcher hands over
Matching(c) ==
    LET L == Len(c.tpl)
        C == Len(c.cs)
    IN  [k \in {i \in 1..L : c.tpl[i].tgt # 0}
               \cup (L + 1)..(L + C + Len(c.ms)) |->
            IF k <= L THEN c.tpl[k].tgt
            ELSE IF k <= L + C THEN c.cs[k - L]
            ELSE c.ms[k - L - C]]

\* __init__ (base.py 36): the pattern atoms that are not in the replacement
ToDelete(c) == (Len(c.tpl) + 1)..(Len(c.tpl) + Len(c.cs))

Start(c) ==
    /\ atoms = HostAtoms(c)
    /\ bonds = HostBonds(c)
    /\ rAtoms = TplAtoms(c)
    /\ rBonds = TplBonds(c)
    /\ toDel = ToDelete(c)
    /\ fixRings = c.fix
    /\ mapping = Matching(c)
    /\ mapping0 = Matching(c)
    /\ pc = "get_deleted"
    /\ core = {} /\ remain = {} /\ coreLeft = {} /\ nbrLeft = {}
    /\ stack = <<>> /\ seen = {} /\ globalSeen = {} /\ delete = {}
    /\ deleted = {}
    /\ rLeft = 1..Len(c.tpl)
    /\ maxAtom = c.n                                   \* line 80: max(atoms)
    /\ natoms = Empty /\ nbonds = Empty /\ bobj = Empty
    /\ stereoAtoms = {} /\ stereoBonds = {} /\ patched = {}
    /\ calls = <<>> /\ thieleRet = "none" /\ returned = FALSE

(***************************************************************************)
(* Calls that vary the topology: every host graph within the bounds, the   *)
(* removed, matched and masked atoms, and every set of template bonds.     *)
(* Matched template atoms are AnyElement atoms, new ones QueryElement      *)
(* atoms; template bonds are double, host bonds single.                    *)
(***************************************************************************)
HostPairs(n) == {e \in (1..n) \X (1..n) : e[1] < e[2]}
Graphs(n) == {es \in SUBSET HostPairs(n) : Cardinality(es) <= MaxBonds}

AnyAtom(tgt) ==
    [kind |-> "Any", tgt |-> tgt, el |-> 0, iso |-> 0, charge |-> 0, rad |-> FALSE,
     stereo |-> "None", hs |-> <<>>]
QueryAtom(tgt, el, hs) ==
    [kind |-> "Query", tgt |-> tgt, el |-> el, iso |-> 0, charge |-> 0, rad |-> FALSE,
     stereo |-> "None", hs |-> hs]

\* which template atoms are matched: sequences of TRUE (matched) and FALSE
Shapes ==
    {sh \in UNION {[1..L -> BOOLEAN] : L \in 1..(MaxPatched + MaxNew)} :
        /\ Cardinality({k \in DOMAIN sh : sh[k]}) <= MaxPatched
        /\ Cardinality({k \in DOMAIN sh : ~sh[k]}) <= MaxNew}

\* the matched template atoms take the host atoms from first on, in order
TopoTemplate(sh, first) ==
    [k \in DOMAIN sh |->
        IF sh[k]
        THEN AnyAtom(first + Cardinality({j \in 1..k : sh[j]}) - 1)
        ELSE QueryAtom(0, 7, <<1>>)]

TopoCalls ==
    {[n |-> NAtoms, es |-> es, dbl |-> {}, alab |-> {}, blab |-> {}, iso |-> {},
      tpl |-> TopoTemplate(sh, nc + 1),
      tb |-> [e \in tb |-> [order |-> 2, stereo |-> "None"]],
      cs |-> [j \in 1..nc |-> j],
      ms |-> [j \in 1..nm |-> nc + Cardinality({k \in DOMAIN sh : sh[k]}) + j],
      fix |-> fix] :
        es \in Graphs(NAtoms), sh \in Shapes, nc \in 0..MaxCore, nm \in 0..1,
        tb \in SUBSET HostPairs(MaxPatched + MaxNew), fix \in BOOLEAN}

TopoCallsOK ==
    {c \in TopoCalls :
        /\ Len(c.cs) + Len(c.ms) + Cardinality({k \in DOMAIN c.tpl : c.tpl[k].tgt # 0}) <= c.n
        /\ DOMAIN c.tb \subseteq HostPairs(Len(c.tpl))}

(***************************************************************************)
(* Calls that vary the template's atoms: every sequence of atom variants,  *)
(* matched or not, on a host that is a chain.  A replacement is a query    *)
(* (AnyElement and QueryElement atoms) or a molecule (Element atoms).      *)
(***************************************************************************)
QueryKinds == {"AnyMatched", "AnyUnmatched", "QueryMatched",
               "QueryNew0", "QueryNew1", "QueryNew2"}
MoleculeKinds == {"ElementMatched", "ElementNew"}
MatchedKinds == {"AnyMatched", "QueryMatched", "ElementMatched"}

AttrTemplates ==
    {t \in UNION {[1..L -> QueryKinds] \cup [1..L -> MoleculeKinds] :
                    L \in 1..(MaxPatched + MaxNew)} :
        Cardinality({k \in DOMAIN t : t[k] \in MatchedKinds}) <= MaxPatched}

\* the k-th template atom of variant kd; a matched QueryElement may list
\* several hydrogen counts, a new one none, one or two
AttrAtom(kd, k, tgt) ==
    [kind |-> IF kd \in {"AnyMatched", "AnyUnmatched"} THEN "Any"
              ELSE IF kd \in MoleculeKinds THEN "Element" ELSE "Query",
     tgt |-> IF kd \in MatchedKinds THEN tgt ELSE 0,
     el |-> IF kd \in {"AnyMatched", "AnyUnmatched"} THEN 0 ELSE 6 + 2 * (k % 2),
     iso |-> 0, charge |-> k % 2, rad |-> FALSE, stereo |-> "None",
     hs |-> IF kd \in {"QueryMatched", "QueryNew2"} THEN <<0, 1>>
            ELSE IF kd = "QueryNew1" THEN <<1>>
            ELSE IF kd \in MoleculeKinds THEN <<2>>
            ELSE <<>>]

AttrCall(t, chain, withCore, fix) ==
    [n |-> NAtoms, es |-> {e \in HostPairs(NAtoms) : e[2] = e[1] + 1},
     dbl |-> {}, alab |-> {}, blab |-> {}, iso |-> {},
     tpl |-> [k \in DOMAIN t |->
                AttrAtom(t[k], k, Cardinality({j \in 1..k : t[j] \in MatchedKinds}))],
     tb |-> [e \in {x \in HostPairs(Len(t)) : chain /\ x[2] = x[1] + 1} |->
                [order |-> 1, stereo |-> "None"]],
     cs |-> IF withCore THEN <<NAtoms>> ELSE <<>>,
     ms |-> <<>>,
     fix |-> fix]

AttrCalls ==
    {AttrCall(t, chain, withCore, fix) :
        t \in AttrTemplates, chain \in BOOLEAN, withCore \in BOOLEAN, fix \in BOOLEAN}

(***************************************************************************)
(* Calls that vary the labels: a host with the bond 1-2, single or double, *)
(* and Arms substituents on its two ends; every stereocentre of the host   *)
(* among atom 1, atom 2 and the bond 1-2 is labelled.  The template        *)
(* matches one or two of the atoms 1, 2, 3 with AnyElement or QueryElement *)
(* atoms of the host's elements, with or without the host's bonds between  *)
(* them, with or without labels of its own and a new atom on its first     *)
(* atom; a substituent may be removed and the last one masked.             *)
(***************************************************************************)
PlainBonds(es, dbl) ==
    [e \in Sym(es) |-> [order |-> IF Und(e) \in dbl THEN 2 ELSE 1, stereo |-> "None"]]

StereoHost(f, dbl) ==
    LET es == {<<1, 2>>} \cup {<<f[a], a>> : a \in DOMAIN f}
        hb == PlainBonds(es, dbl)
    IN  [n |-> Arms + 2, es |-> es, dbl |-> dbl,
         alab |-> {a \in {1, 2} : Tetrahedron(hb, a)},
         blab |-> IF CisTrans(hb, 1, 2) THEN {<<1, 2>>} ELSE {}]

StereoHosts ==
    {StereoHost(f, dbl) : f \in [3..(Arms + 2) -> {1, 2}], dbl \in {{}, {<<1, 2>>}}}

StereoCall(h, P, C, M, query, addNew, hostBonds, override, isoOn, fix) ==
    LET ps == Sorted(P)
        L == Len(ps) + (IF addNew THEN 1 ELSE 0)
        lab == IF override THEN "F" ELSE "None"
        hb == PlainBonds(h.es, h.dbl)
        kept == {e \in HostPairs(Len(ps)) :
                    hostBonds /\ <<ps[e[1]], ps[e[2]]>> \in DOMAIN hb}
        added == IF addNew /\ L > 1 THEN {<<1, L>>} ELSE {}
    IN  [n |-> h.n, es |-> h.es, dbl |-> h.dbl, alab |-> h.alab, blab |-> h.blab,
         iso |-> IF isoOn THEN {1} ELSE {},
         tpl |-> [k \in 1..L |->
                    IF k > Len(ps) THEN QueryAtom(0, 8, <<1>>)
                    ELSE [(IF query THEN QueryAtom(ps[k], HostEl(ps[k]), <<>>)
                           ELSE AnyAtom(ps[k]))
                          EXCEPT !.stereo = IF k = 1 THEN lab ELSE "None"]],
         tb |-> [e \in kept \cup added |->
                    IF e \in kept
                    THEN [order |-> hb[<<ps[e[1]], ps[e[2]]>>].order, stereo |-> lab]
                    ELSE [order |-> 1, stereo |-> "None"]],
         cs |-> Sorted(C), ms |-> Sorted(M), fix |-> fix]

StereoCalls ==
    {StereoCall(h, P, C, M, query, addNew, hostBonds, override, isoOn, fix) :
        h \in StereoHosts,
        P \in {S \in SUBSET {1, 2, 3} : S # {} /\ Cardinality(S) <= MaxPatched},
        C \in {{}, {3}, {4}}, M \in {{}, {Arms + 2}},
        query \in BOOLEAN, addNew \in BOOLEAN, hostBonds \in BOOLEAN,
        override \in BOOLEAN, isoOn \in BOOLEAN, fix \in BOOLEAN}

StereoCallsOK ==
    {c \in StereoCalls :
        LET P == {c.tpl[k].tgt : k \in DOMAIN c.tpl} \ {0}
            C == Range(c.cs)
            M == Range(c.ms)
        IN  P \cap C = {} /\ (P \cup C) \cap M = {} /\ (c.iso # {} => 1 \in P)}

(***************************************************************************)
(* The sulfonamidation template (reactions/_sulfonamidation.py) on         *)
(* methanesulfonyl chloride and methylamine: S(1)(Cl 2)(=O 3)(=O 4)C 5 and *)
(* N(6)C 7.  The pattern atoms S and N are the product's two AnyElement    *)
(* atoms, joined by a single bond; the leaving group is in _to_delete; the *)
(* oxygens and carbons are masked pattern atoms.  The template's atoms are *)
(* numbered 1 and 2 here, the other pattern atoms after them.              *)
(***************************************************************************)
SulfonamidationCalls ==
    {[n |-> 7, els |-> <<16, 17, 8, 8, 6, 7, 6>>,
      es |-> {<<1, 2>>, <<1, 3>>, <<1, 4>>, <<1, 5>>, <<6, 7>>},
      dbl |-> {<<1, 3>>, <<1, 4>>}, alab |-> {}, blab |-> {}, iso |-> {},
      tpl |-> <<AnyAtom(1), AnyAtom(6)>>,
      tb |-> [e \in {<<1, 2>>} |-> [order |-> 1, stereo |-> "None"]],
      cs |-> <<2>>, ms |-> <<3, 4, 5, 7>>, fix |-> fix] : fix \in BOOLEAN}

Init ==
    \E c \in TopoCallsOK \cup AttrCalls \cup StereoCallsOK \cup SulfonamidationCalls :
        Start(c)

Next ==
    \/ GetDeletedStart
    \/ NextCore
    \/ NextNeighbor
    \/ WalkPop
    \/ WalkCommit
    \/ PatchAtom
    \/ PatchBonds
    \/ CarryOver
    \/ TranslateStereo
    \/ Kekule
    \/ Thiele
    \/ FixStereo

Spec == Init /\ [][Next]_vars

(***************************************************************************)
(* What the properties speak of.                                           *)
(***************************************************************************)
HostIds == DOMAIN atoms

\* the host atoms the reactor removes by itself, and the retained ones
CoreAtoms == {mapping0[x] : x \in toDel}
Retained == Range(mapping0) \ CoreAtoms

\* the atoms joined to an atom of S by a host path inside allowed
RECURSIVE Closure(_, _)
Closure(S, allowed) ==
    LET T == S \cup {m \in allowed : \E n \in S : <<n, m>> \in DOMAIN bonds}
    IN  IF T = S THEN S ELSE Closure(T, allowed)

\* the connected region of a in the host minus core and retained atoms
Region(a) == Closure({a}, HostIds \ (CoreAtoms \cup Retained))

Touches(S, T) == \E n \in S, m \in T : <<n, m>> \in DOMAIN bonds

WalkOver == pc \notin {"get_deleted", "core", "nbr", "walk"}

\* the template atoms without a mapping entry when the call started, and
\* the identifiers they were given
Unmatched == {k \in DOMAIN rAtoms : ~Mapped(mapping0, k)}
FreshIds == {mapping[k] : k \in {u \in Unmatched : u \in DOMAIN mapping}}

\* the host atoms the template patches
PatchedHost == {mapping0[k] : k \in DOMAIN rAtoms \ Unmatched}

Output == NewBonds(nbonds, bobj)

\* C1: the returned deletion set holds no atom outside the core set that a
\* host path through no core atom joins to a retained atom.
C1_NoConnectedAtomDeleted ==
    WalkOver =>
        \A a \in deleted \ CoreAtoms :
            Closure({a}, HostIds \ CoreAtoms) \cap Retained = {}

\* C5: the returned deletion set holds every core atom and every atom whose
\* region hangs on a core atom and touches no retained atom.
C5_EveryCutOffAtomDeleted ==
    (WalkOver /\ toDel # {}) =>
        /\ CoreAtoms \subseteq deleted
        /\ \A a \in HostIds \ (CoreAtoms \cup Retained) :
              (Touches(Region(a), CoreAtoms) /\ ~Touches(Region(a), Retained))
                  => a \in deleted

\* C2 as stated: with fix_rings the calls are kekule, thiele and then
\* fix_stereo exactly when thiele reported a change; without fix_rings only
\* fix_stereo is called.
C2_FixWhenAromatized ==
    returned =>
        IF fixRings
        THEN \/ thieleRet = "True" /\ calls = <<"kekule", "thiele", "fix_stereo">>
             \/ thieleRet = "False" /\ calls = <<"kekule", "thiele">>
        ELSE calls = <<"fix_stereo">>

\* C2 amended: with fix_rings the calls are kekule, thiele and then
\* fix_stereo exactly when thiele reported no change; without fix_rings
\* only fix_stereo is called.
C2_FixWhenNotAromatized ==
    returned =>
        IF fixRings
        THEN \/ thieleRet = "False" /\ calls = <<"kekule", "thiele", "fix_stereo">>
             \/ thieleRet = "True" /\ calls = <<"kekule", "thiele">>
        ELSE calls = <<"fix_stereo">>

C2_Witness == returned /\ fixRings /\ thieleRet = "False" /\ Len(calls) = 3

\* C6: the output's atoms are the host's atoms outside the deletion set
\* together with the fresh identifiers; the deletion set lies in the host,
\* the fresh identifiers outside it, one per unmatched template atom, and
\* the atom counts add up.
C6_AtomConservation ==
    returned =>
        /\ DOMAIN natoms = (HostIds \ deleted) \cup FreshIds
        /\ deleted \subseteq HostIds
        /\ FreshIds \cap HostIds = {}
        /\ Cardinality(FreshIds) = Cardinality(Unmatched)
        /\ Cardinality(DOMAIN natoms) =
              Cardinality(HostIds) - Cardinality(deleted) + Cardinality(FreshIds)

C6_Witness ==
    returned /\ FreshIds # {} /\ deleted \ CoreAtoms # {} /\ PatchedHost # {}

\* C7 as stated: a removed core atom is absent from the output graph and
\* its identifier is no longer in the mapping.
C7_RemovedFromGraphAndMapping ==
    returned =>
        \A x \in toDel :
            /\ mapping0[x] \notin DOMAIN natoms
            /\ mapping0[x] \notin Range(mapping)

\* C7 amended: a removed core atom is absent from the output graph, and the
\* mapping still holds its entry as the caller passed it.
C7_RemovedFromGraphOnly ==
    returned =>
        \A x \in toDel :
            /\ mapping0[x] \notin DOMAIN natoms
            /\ x \in DOMAIN mapping /\ mapping[x] = mapping0[x]

C7_Witness == returned /\ toDel # {} /\ PatchedHost # {}

\* the bonds C9 expects: the template's, between the images of their ends
ExpectedPatchBonds == {<<mapping[e[1]], mapping[e[2]]>> : e \in DOMAIN rBonds}
\* and the host's that touch no deleted atom and do not join two patched atoms
ExpectedHostBonds ==
    {e \in DOMAIN bonds :
        /\ e[1] \notin deleted /\ e[2] \notin deleted
        /\ ~(e[1] \in PatchedHost \cup FreshIds /\ e[2] \in PatchedHost \cup FreshIds)}

SulfonamidationDone ==
    /\ returned
    /\ Cardinality(HostIds) = 7 /\ atoms[1].el = 16
    /\ Output[<<1, 6>>].order = 1 /\ nbonds[<<1, 6>>][1] = "patch"
    /\ Output[<<1, 3>>] = bonds[<<1, 3>>] /\ Output[<<1, 4>>] = bonds[<<1, 4>>]
    /\ 2 \notin DOMAIN natoms /\ Nbrs(Output, 1) = {3, 4, 5, 6}

\* C10: in the output every bond entry has its reverse entry, both are the
\* same Bond object, and both ends are atoms of the output.
C10_SymmetricAdjacency ==
    returned =>
        \A e \in DOMAIN nbonds :
            /\ <<e[2], e[1]>> \in DOMAIN nbonds
            /\ nbonds[<<e[2], e[1]>>] = nbonds[e]
            /\ nbonds[e] \in DOMAIN bobj
            /\ e[1] \in DOMAIN natoms /\ e[2] \in DOMAIN natoms

C10_Witness ==
    /\ returned
    /\ \E e \in DOMAIN nbonds : nbonds[e][1] = "patch"
    /\ \E e \in DOMAIN nbonds : nbonds[e][1] = "host"
    /\ deleted # {}

\* C3: when the atom loop raises, no graph is returned and the caller's
\* mapping is what it was before the call.
C3_NothingAppliedOnError ==
    pc = "raised" => (~returned /\ mapping = mapping0)

\* the template gave the label of output atom n, or of output bond e
ExplicitAtom(n) ==
    \E k \in DOMAIN rAtoms : mapping[k] = n /\ rAtoms[k].stereo # "None"
ExplicitBond(e) ==
    \E t \in DOMAIN rBonds :
        <<mapping[t[1]], mapping[t[2]]>> = e /\ rBonds[t].stereo # "None"

\* C4: in the returned graph an atom whose label the template did not give
\* has the neighbours it has in the host, and a bond whose label the
\* template did not give has the substituents it has in the host.
C4_NoStaleLabel ==
    returned =>
        /\ \A n \in DOMAIN natoms :
              (natoms[n].stereo # "None" /\ ~ExplicitAtom(n))
                  => Nbrs(Output, n) = Nbrs(bonds, n)
        /\ \A e \in DOMAIN nbonds :
              (Output[e].stereo # "None" /\ ~ExplicitBond(e))
                  => CisTransEnds(Output, e[1], e[2]) = CisTransEnds(bonds, e[1], e[2])

\* the premise of the identity law: every template atom matched, nothing
\* to delete, the host's elements, charges and radical flags, exactly the
\* host's bonds between the matched atoms, no label in the template
IdentityPatch ==
    /\ Unmatched = {}
    /\ toDel = {}
    /\ \A k \in DOMAIN rAtoms :
          LET ra == rAtoms[k]
              sa == atoms[mapping0[k]]
          IN  /\ ra.kind # "Any" => ra.el = sa.el
              /\ ra.charge = sa.charge /\ ra.rad = sa.rad
              /\ ra.stereo = "None"
    /\ {<<mapping0[e[1]], mapping0[e[2]]>> : e \in DOMAIN rBonds}
          = {e \in DOMAIN bonds : e[1] \in PatchedHost /\ e[2] \in PatchedHost}
    /\ \A e \in DOMAIN rBonds :
          /\ rBonds[e].order = bonds[<<mapping0[e[1]], mapping0[e[2]]>>].order
          /\ rBonds[e].stereo = "None"

\* the QueryElement and Element atoms of the template carry the isotopes
\* of their host atoms
SameIsotopes ==
    \A k \in DOMAIN rAtoms \ Unmatched :
        rAtoms[k].kind # "Any" => rAtoms[k].iso = atoms[mapping0[k]].iso

SameAsHost ==
    /\ DOMAIN natoms = HostIds
    /\ \A n \in HostIds : natoms[n] = atoms[n]
    /\ DOMAIN nbonds = DOMAIN bonds
    /\ \A e \in DOMAIN bonds : Output[e] = bonds[e]

====
